---- MODULE Spec2Model ----
(***************************************************************************)
(* Model of Code/pytorch/three_d_cnn/data_utils.py: the reduction of a     *)
(* subject/session table to one baseline row per subject                   *)
(* (subject_diagnosis_df), the expansion of a subject subset to all its    *)
(* sessions (multiple_time_points), the cross-validation split writer      *)
(* (split_subjects_to_tsv) and the path lookup (load_split).               *)
(*                                                                         *)
(* Every cell value of a table is a sequence of one-character (or, for     *)
(* identifiers that are never sliced, whole-word) strings, so that values  *)
(* of different columns can be compared and a session id can be sliced,    *)
(* parsed and rebuilt as the code does.  A DataFrame is a record           *)
(* [cols, rows]: cols is the sequence of column names, rows the sequence   *)
(* of rows, each row a function from column name to value.                 *)
(***************************************************************************)
EXTENDS Integers, Sequences, FiniteSets, TLC

VARIABLES
    pc,            \* position of the running call
    df,            \* the input table (subject_session_df / df)
    subset_df,     \* multiple_time_points: the participant_id column of subset_df
    result,        \* what subject_diagnosis_df / multiple_time_points returned
    diagnoses_tsv, \* split_subjects_to_tsv / load_split: the source path
    n_splits,      \* split_subjects_to_tsv: number of folds
    diagnosis_df,  \* split_subjects_to_tsv: the reduced table
    splits,        \* the (train_index, test_index) pairs the K-fold generator yields
    n_iteration,   \* split_subjects_to_tsv: fold counter
    files,         \* the file system: sequence of [path, content] in write order
    loaded         \* what load_split returned

vars == <<pc, df, subset_df, result, diagnoses_tsv, n_splits, diagnosis_df,
          splits, n_iteration, files, loaded>>

(***************************************************************************)
(* Bounds of the model.                                                    *)
(***************************************************************************)
MaxRows == 3        \* rows of an input table of subject_diagnosis_df
MaxFullRows == 3    \* rows of the reference table of multiple_time_points
MaxSubset == 2      \* rows of subset_df
MaxSubjects == 4    \* subjects of the table split_subjects_to_tsv reads

(***************************************************************************)
(* Generic helpers on sequences and sets.                                  *)
(***************************************************************************)
Range(s) == {s[i] : i \in 1..Len(s)}

IndexOf(s, x) == CHOOSE i \in 1..Len(s) : s[i] = x

SetMin(S) == CHOOSE x \in S : \A y \in S : x <= y

\* All sequences without repetition over S of length 1..n.
RECURSIVE DistinctSeqs(_, _)
DistinctSeqs(S, n) ==
    IF n = 0 \/ S = {} THEN {}
    ELSE {<<x>> : x \in S}
         \cup UNION {{<<x>> \o t : t \in DistinctSeqs(S \ {x}, n - 1)} : x \in S}

NoRepeat(s) == \A i, j \in 1..Len(s) : s[i] = s[j] => i = j

\* The ascending sequence of a finite set of integers.
RECURSIVE SortedSeq(_)
SortedSeq(S) ==
    IF S = {} THEN <<>>
    ELSE LET m == SetMin(S) IN <<m>> \o SortedSeq(S \ {m})

(***************************************************************************)
(* Strings: str(n), int(s), and the session id format.                     *)
(***************************************************************************)
DigitChars == <<"0", "1", "2", "3", "4", "5", "6", "7", "8", "9">>

IsDigit(c) == c \in Range(DigitChars)

DigitVal(c) == IndexOf(DigitChars, c) - 1

\* int(s) raises ValueError unless s is an integer literal.
IsIntLiteral(s) == Len(s) > 0 /\ \A i \in 1..Len(s) : IsDigit(s[i])

RECURSIVE IntOf(_)
IntOf(s) ==
    IF Len(s) = 0 THEN 0
    ELSE IntOf(SubSeq(s, 1, Len(s) - 1)) * 10 + DigitVal(s[Len(s)])

RECURSIVE Str(_)
Str(n) ==
    IF n < 10 THEN <<DigitChars[n + 1]>>
    ELSE Str(n \div 10) \o <<DigitChars[(n % 10) + 1]>>

\* session[5::]
SessionSuffix(session) == SubSeq(session, 6, Len(session))

\* int(session[5::])
SessionNb(session) == IntOf(SessionSuffix(session))

SesM == <<"s", "e", "s", "-", "M">>

\* The session id rebuilt without the zero padding of numbers below 10.
session_baseline_unpadded(nb) == SesM \o Str(nb)

\* Lines 84-87: the session id rebuilt from the baseline number.
session_baseline(nb) ==
    IF nb < 10 THEN SesM \o <<"0">> \o Str(nb) ELSE SesM \o Str(nb)

(***************************************************************************)
(* Tables.                                                                 *)
(***************************************************************************)
PID == "participant_id"
SID == "session_id"
DX == "diagnosis"

ColumnNames == {PID, SID, DX}

\* Every order the three columns of an input file can have.
ColumnOrders == {c \in [1..3 -> ColumnNames] : NoRepeat(c)}

\* The values of a row, read in the order of cols.
RowValues(row, cols) == [i \in 1..Len(cols) |-> row[cols[i]]]

\* pd.DataFrame(values.reshape(1, n), columns=cols): the i-th value goes under
\* the i-th column.
LabelRow(values, cols) == [c \in Range(cols) |-> values[IndexOf(cols, c)]]

\* set_index(keys): the columns that stay, in their order.
RemainingCols(cols, keys) == SelectSeq(cols, LAMBDA c : c \notin keys)

Ok(t) == [status |-> "ok", cols |-> t.cols, rows |-> t.rows]

Raised(kind) == [status |-> kind, cols |-> <<>>, rows |-> <<>>]

NotCalled == [status |-> "none", cols |-> <<>>, rows |-> <<>>]

\* Participant ids, in the sorted order groupby yields them.
SubjectIds == << <<"sub-01">>, <<"sub-02">>, <<"sub-03">>, <<"sub-04">>, <<"sub-05">>, <<"sub-06">> >>

SubjectRank(s) == IndexOf(SubjectIds, s)

\* The distinct participant ids of a table, sorted.
SubjectsOf(t) ==
    LET present == {t.rows[i][PID] : i \in 1..Len(t.rows)}
        ranks == {SubjectRank(s) : s \in present}
        sorted == SortedSeq(ranks)
    IN [i \in 1..Len(sorted) |-> SubjectIds[sorted[i]]]

\* The rows of one subject, in table order.
RowsOf(t, subject) == SelectSeq(t.rows, LAMBDA r : r[PID] = subject)

SessionsOf(t, subject) ==
    LET rs == RowsOf(t, subject) IN [i \in 1..Len(rs) |-> rs[i][SID]]

(***************************************************************************)
(* subject_diagnosis_df (lines 70-96).                                     *)
(***************************************************************************)
\* Line 81: the session numbers of one subject, in table order.
session_nb_list(t, subject) ==
    LET ss == SessionsOf(t, subject) IN [i \in 1..Len(ss) |-> SessionNb(ss[i])]

\* The first listed number, whatever its size.
session_baseline_nb_first(nbs) == nbs[1]

\* Lines 82-83: sort(), then element 0.
session_baseline_nb(nbs) == SetMin(Range(nbs))

\* What one iteration of the loop raises, if anything: int() on a suffix that
\* is no integer literal (line 81), .loc on a key that is absent (line 88).
SubjectError(t, subject) ==
    LET ss == SessionsOf(t, subject) IN
    IF \E i \in 1..Len(ss) : ~IsIntLiteral(SessionSuffix(ss[i])) THEN "ValueError"
    ELSE IF session_baseline(session_baseline_nb(session_nb_list(t, subject))) \notin Range(ss)
         THEN "KeyError"
         ELSE "ok"

\* Lines 88-90: the values of the baseline row without its two index columns,
\* then subject inserted at 0 and session_baseline at 1.
row_baseline(t, subject) ==
    LET baseline == session_baseline(session_baseline_nb(session_nb_list(t, subject)))
        src == CHOOSE r \in Range(t.rows) : r[PID] = subject /\ r[SID] = baseline
    IN <<subject, baseline>> \o RowValues(src, RemainingCols(t.cols, {PID, SID}))

\* Lines 91-92: the values labelled with the input's columns, by position.
row_df(t, subject) == LabelRow(row_baseline(t, subject), t.cols)

subject_diagnosis_df(t) ==
    LET subjects == SubjectsOf(t)
        failing == {i \in 1..Len(subjects) : SubjectError(t, subjects[i]) # "ok"}
    IN IF failing # {}
       THEN Raised(SubjectError(t, subjects[SetMin(failing)]))
       ELSE Ok([cols |-> t.cols,
                rows |-> [i \in 1..Len(subjects) |-> row_df(t, subjects[i])]])

(***************************************************************************)
(* Inputs of subject_diagnosis_df.                                         *)
(***************************************************************************)
M00 == SesM \o <<"0", "0">>
M06 == SesM \o <<"0", "6">>
M12 == SesM \o <<"1", "2">>
M100 == SesM \o <<"1", "0", "0">>
\* Ids that are not of the form ses-M<NN>: no zero padding, another 5-character
\* prefix, a suffix that is no number.
M6Unpadded == SesM \o <<"6">>
VisM00 == <<"v", "i", "s", "-", "M", "0", "0">>
MBad == SesM \o <<"x", "x">>

WellFormedSessions == {M00, M06, M12, M100}
MalformedSessions == {M6Unpadded, VisM00, MBad}

CN == <<"CN">>
AD == <<"AD">>
MCI == <<"MCI">>

\* The diagnosis recorded at a visit: the first subject progresses, the others
\* are stable.
DiagnosisAt(subject, session) ==
    IF subject # SubjectIds[1] THEN (IF SubjectRank(subject) % 2 = 0 THEN AD ELSE CN)
    ELSE IF session \in {M00, VisM00} THEN CN
    ELSE IF session \in {M06, M6Unpadded} THEN MCI
    ELSE AD

Record(subject, session) ==
    [c \in ColumnNames |->
        IF c = PID THEN subject ELSE IF c = SID THEN session
        ELSE DiagnosisAt(subject, session)]

\* The visits on record: every kind of id for the first subject, two visits for
\* the second.
ReduceCohort ==
    {Record(SubjectIds[1], x) : x \in WellFormedSessions \cup MalformedSessions}
    \cup {Record(SubjectIds[2], x) : x \in {M00, M06}}

\* Tables whose (participant_id, session_id) pairs are unique, rows and columns
\* in any order.
ReduceInputs ==
    {[cols |-> c, rows |-> r] : c \in ColumnOrders, r \in DistinctSeqs(ReduceCohort, MaxRows)}

Idle ==
    /\ subset_df = <<>>
    /\ diagnoses_tsv = <<>>
    /\ n_splits = 0
    /\ diagnosis_df = NotCalled
    /\ splits = <<>>
    /\ n_iteration = 0
    /\ files = <<>>
    /\ loaded = <<>>

InitReduce ==
    /\ pc = "reduce"
    /\ df \in ReduceInputs
    /\ result = NotCalled
    /\ Idle

CallSubjectDiagnosisDf ==
    /\ pc = "reduce"
    /\ result' = subject_diagnosis_df(df)
    /\ pc' = "reduced"
    /\ UNCHANGED <<df, subset_df, diagnoses_tsv, n_splits, diagnosis_df, splits,
                   n_iteration, files, loaded>>

NextReduce == CallSubjectDiagnosisDf

SpecReduce == InitReduce /\ [][NextReduce]_vars

(***************************************************************************)
(* The session id format and the baseline session, as the specification    *)
(* states them.                                                            *)
(***************************************************************************)
\* 'ses-M<NN>': the prefix, then a number of at least two digits, with a leading
\* zero only when it has exactly two.
WellFormed(session) ==
    LET suffix == SubSeq(session, 6, Len(session)) IN
    /\ Len(session) >= 7
    /\ SubSeq(session, 1, 5) = <<"s", "e", "s", "-", "M">>
    /\ \A i \in 1..Len(suffix) : suffix[i] \in {"0", "1", "2", "3", "4", "5", "6", "7", "8", "9"}
    /\ (Len(suffix) > 2 => suffix[1] # "0")

AllWellFormed(t) == \A i \in 1..Len(t.rows) : WellFormed(t.rows[i][SID])

\* <NN> of a well-formed id, and the id of a number.
MonthOf(session) == IntOf(SubSeq(session, 6, Len(session)))

IdOfMonth(n) ==
    <<"s", "e", "s", "-", "M">> \o (IF n < 10 THEN <<"0">> ELSE <<>>) \o Str(n)

InputSubjects(t) == {t.rows[i][PID] : i \in 1..Len(t.rows)}

InputSessions(t, s) == {t.rows[i][SID] : i \in {j \in 1..Len(t.rows) : t.rows[j][PID] = s}}

\* The session of s with the numerically smallest <NN>.
EarliestSession(t, s) ==
    CHOOSE x \in InputSessions(t, s) :
        \A y \in InputSessions(t, s) : MonthOf(x) <= MonthOf(y)

\* The subject and session a returned row was built from: the first two values
\* the row was assembled with (lines 89-90), read in column order.
TakenFrom(t, i) ==
    LET v == RowValues(t.rows[i], t.cols) IN <<v[1], v[2]>>

C8_ColumnsKeepTheirValues ==
    (pc = "reduced" /\ result.status = "ok") =>
        /\ result.cols = df.cols
        /\ \A i \in 1..Len(result.rows) :
              /\ result.rows[i] \in Range(df.rows)
              /\ result.rows[i][PID] = SubjectsOf(df)[i]
              /\ \A y \in InputSessions(df, SubjectsOf(df)[i]) :
                    MonthOf(result.rows[i][SID]) <= MonthOf(y)

\* C9: a session id that is not of the form ses-M<NN> makes
\* subject_diagnosis_df fail, wherever it stands among the subject's sessions.
C9_MalformedAlwaysFails ==
    (pc = "reduced" /\ ~AllWellFormed(df)) => result.status # "ok"

\* C9 as amended: subject_diagnosis_df fails exactly when, for some subject, the
\* text after the first 5 characters of one of its session ids is no integer
\* literal, or the id 'ses-M<NN>' of its smallest session number is not one of
\* its session ids.
C9_FailsOnlyOnBaselineLookup ==
    pc = "reduced" =>
        (result.status # "ok" <=>
            \E s \in InputSubjects(df) :
                \/ \E x \in InputSessions(df, s) :
                      \/ Len(x) <= 5
                      \/ \E k \in 6..Len(x) : ~IsDigit(x[k])
                \/ IdOfMonth(MonthOf(EarliestSession(df, s))) \notin InputSessions(df, s))

\* A malformed id that is not the earliest one is accepted: ses-M6 beside ses-M00.
C9_Witness ==
    /\ pc = "reduced"
    /\ result.status = "ok"
    /\ \E i, j \in 1..Len(df.rows) :
          /\ df.rows[i][PID] = df.rows[j][PID]
          /\ df.rows[i][SID] = M6Unpadded
          /\ df.rows[j][SID] = M00

(***************************************************************************)
(* multiple_time_points (lines 99-122).  subset is the sequence of the     *)
(* rows of subset_df, of which only participant_id is read.                *)
(***************************************************************************)
\* Lines 112-117: temp_df.loc[subject] is a Series when the subject has one row;
\* its values are those of the columns left by set_index('participant_id'), the
\* subject is inserted at 0 and the list is labelled with df.columns by position.
SeriesRow(t, subject) ==
    LET src == RowsOf(t, subject)[1]
        row == <<subject>> \o RowValues(src, RemainingCols(t.cols, {PID}))
    IN LabelRow(row, t.cols)

\* Lines 111-119: the rows appended for one row of subset_df.
SubjectTimePoints(t, subject) ==
    IF Len(RowsOf(t, subject)) = 1
    THEN <<SeriesRow(t, subject)>>
    ELSE RowsOf(t, subject)

RECURSIVE AppendAll(_, _, _)
AppendAll(t, subset, i) ==
    IF i > Len(subset) THEN <<>>
    ELSE SubjectTimePoints(t, subset[i][PID]) \o AppendAll(t, subset, i + 1)

multiple_time_points(t, subset) ==
    IF \E i \in 1..Len(subset) : Len(RowsOf(t, subset[i][PID])) = 0
    THEN Raised("KeyError")
    ELSE Ok([cols |-> t.cols, rows |-> AppendAll(t, subset, 1)])

(***************************************************************************)
(* Inputs of multiple_time_points.                                         *)
(***************************************************************************)
ExpandSubjects == {SubjectIds[1], SubjectIds[2]}

ExpandCohort ==
    {Record(SubjectIds[1], x) : x \in {M00, M06, M12}}
    \cup {Record(SubjectIds[2], x) : x \in {M00, M06}}

ExpandInputs ==
    {[cols |-> c, rows |-> r] :
        c \in ColumnOrders, r \in DistinctSeqs(ExpandCohort, MaxFullRows)}

\* A subset table: rows naming subjects, one of which no reference table holds.
SubsetRow(subject) == [c \in {PID} |-> subject]

RECURSIVE SeqsUpTo(_, _)
SeqsUpTo(S, n) ==
    IF n = 0 THEN {<<>>}
    ELSE SeqsUpTo(S, n - 1)
         \cup {<<x>> \o t : x \in S, t \in {u \in SeqsUpTo(S, n - 1) : Len(u) = n - 1}}

SubsetInputs ==
    SeqsUpTo({SubsetRow(s) : s \in ExpandSubjects \cup {SubjectIds[3]}}, MaxSubset)

InitExpand ==
    /\ pc = "expand"
    /\ df \in ExpandInputs
    /\ subset_df \in SubsetInputs
    /\ result = NotCalled
    /\ diagnoses_tsv = <<>>
    /\ n_splits = 0
    /\ diagnosis_df = NotCalled
    /\ splits = <<>>
    /\ n_iteration = 0
    /\ files = <<>>
    /\ loaded = <<>>

CallMultipleTimePoints ==
    /\ pc = "expand"
    /\ result' = multiple_time_points(df, subset_df)
    /\ pc' = "expanded"
    /\ UNCHANGED <<df, subset_df, diagnoses_tsv, n_splits, diagnosis_df, splits,
                   n_iteration, files, loaded>>

NextExpand == CallMultipleTimePoints

SpecExpand == InitExpand /\ [][NextExpand]_vars

SubsetSubjects(subset) == {subset[i][PID] : i \in 1..Len(subset)}

\* C2: when every participant id of subset occurs in full, multiple_time_points
\* returns exactly the rows of full whose participant id occurs in subset: all
\* the sessions of those subjects, for subjects with one row and with several,
\* and no row of another subject.
C2_ExpansionComplete ==
    (pc = "expanded" /\ SubsetSubjects(subset_df) \subseteq InputSubjects(df)) =>
        /\ result.status = "ok"
        /\ Range(result.rows) =
              {r \in Range(df.rows) : r[PID] \in SubsetSubjects(subset_df)}

\* C2 on the tables whose first column is participant_id.
C2_ExpansionCompleteWhenFirst ==
    (pc = "expanded" /\ df.cols[1] = PID) => C2_ExpansionComplete

(***************************************************************************)
(* Paths (os.path on POSIX).  A path is a sequence of tokens: "/" and "."  *)
(* are tokens of their own, every other token is a run of characters that  *)
(* holds neither.                                                          *)
(***************************************************************************)
Positions(p, c) == {i \in 1..Len(p) : p[i] = c}

SetMax(S) == CHOOSE x \in S : \A y \in S : y <= x

\* head.rstrip('/')
RECURSIVE StripSlashes(_)
StripSlashes(head) ==
    IF Len(head) > 0 /\ head[Len(head)] = "/"
    THEN StripSlashes(SubSeq(head, 1, Len(head) - 1))
    ELSE head

\* path.dirname(p): the head up to the last "/", its trailing slashes stripped
\* unless it holds nothing else.
Dirname(p) ==
    IF Positions(p, "/") = {} THEN <<>>
    ELSE LET head == SubSeq(p, 1, SetMax(Positions(p, "/"))) IN
         IF \A i \in 1..Len(head) : head[i] = "/" THEN head ELSE StripSlashes(head)

\* path.basename(p): what follows the last "/".
Basename(p) ==
    IF Positions(p, "/") = {} THEN p
    ELSE SubSeq(p, SetMax(Positions(p, "/")) + 1, Len(p))

\* path.join(d, name)
PathJoin(d, name) ==
    IF Len(name) > 0 /\ name[1] = "/" THEN name
    ELSE IF d = <<>> THEN name
    ELSE IF d[Len(d)] = "/" THEN d \o name
    ELSE d \o <<"/">> \o name

\* The name up to its last dot (os.path.splitext).
BaseOfSplitext(name) ==
    IF Positions(name, ".") = {} THEN name
    ELSE SubSeq(name, 1, SetMax(Positions(name, ".")) - 1)

\* name.split('.')[0]: the name up to its first dot.
BaseOf(name) ==
    IF Positions(name, ".") = {} THEN name
    ELSE SubSeq(name, 1, SetMin(Positions(name, ".")) - 1)

\* Lines 165-167 and 182-187: the path built for a fold and a suffix.
FoldPath(p, fold, role) ==
    PathJoin(Dirname(p),
             BaseOf(Basename(p)) \o <<"_iteration-">> \o Str(fold)
                 \o <<"_" \o role, ".", "tsv">>)

\* load_split (lines 171-188): training_tsv, test_tsv, valid_tsv.
load_split(p, fold) ==
    <<FoldPath(p, fold, "train"), FoldPath(p, fold, "train"), FoldPath(p, fold, "test")>>

(***************************************************************************)
(* split_subjects_to_tsv (lines 125-168).  Index arrays hold positions     *)
(* counted from 1.                                                         *)
(***************************************************************************)
\* iloc[index] / loc[index] on a table whose index is 0..n-1.
Take(rows, index) == [i \in 1..Len(index) |-> rows[index[i]]]

\* Any n_splits test sets, empty ones excluded, whether or not they overlap.
ShuffleSplits(n, k) ==
    {f \in [1..k -> SUBSET (1..n)] : \A j \in 1..k : f[j] # {}}

\* Line 144, 147: what StratifiedKFold(n_splits, shuffle=True).split can yield,
\* as the sequence of its test sets: a partition of the n positions into
\* n_splits non-empty folds.
KFoldSplits(n, k) ==
    {[j \in 1..k |-> {i \in 1..n : f[i] = j}] :
        f \in {g \in [1..n -> 1..k] : \A j \in 1..k : \E i \in 1..n : g[i] = j}}

\* Lines 153-155: what StratifiedShuffleSplit(n_splits=1).split can yield on a
\* pool of n rows, as the set of validation positions; the training positions
\* are the others, and neither side may be empty.
HoldoutChoices(n) == {v \in SUBSET (1..n) : v # {} /\ v # 1..n}

\* The pool positions used as positions of the reduced table.
HoldoutRowsOfReduced(reduced, train_index, ind) == Take(reduced, ind)

\* Lines 150, 160-161: diagnosis_df.loc[train_index].iloc[ind].
HoldoutRows(reduced, train_index, ind) == Take(Take(reduced, train_index), ind)

\* The test table with all the sessions of its subjects.
TestTableExpanded(t, reduced, test_index) ==
    LET e == multiple_time_points(t, Take(reduced.rows, test_index))
    IN [cols |-> e.cols, rows |-> e.rows]

\* Line 158: df_test = diagnosis_df.iloc[test_index].
TestTable(t, reduced, test_index) ==
    [cols |-> reduced.cols, rows |-> Take(reduced.rows, test_index)]

FileEntry(p, fold, role, table) ==
    [path |-> FoldPath(p, fold, role), fold |-> fold, role |-> role,
     cols |-> table.cols, rows |-> table.rows]

\* The loop goes on after a fold that raised.
LoopContinuesAfterError == pc \in {"folds", "failed"} /\ n_iteration < n_splits

\* Line 147: the loop takes the next fold while the generator yields one; an
\* exception leaves the function.
LoopContinues == pc = "folds" /\ n_iteration < n_splits

\* Line 168.
NextIteration(n) == n + 1

\* Lines 135-144: read the table, check the diagnosis column, reduce, build the
\* K-fold generator.
StartSplit ==
    /\ pc = "split"
    /\ IF DX \notin Range(df.cols)
       THEN /\ pc' = "failed"
            /\ UNCHANGED <<diagnosis_df, splits>>
       ELSE LET reduced == subject_diagnosis_df(df) IN
            /\ diagnosis_df' = reduced
            /\ IF reduced.status # "ok" \/ Len(reduced.rows) < n_splits
               THEN pc' = "failed" /\ splits' = <<>>
               ELSE pc' = "folds" /\ splits' \in KFoldSplits(Len(reduced.rows), n_splits)
    /\ UNCHANGED <<df, subset_df, result, diagnoses_tsv, n_splits, n_iteration, files,
                   loaded>>

\* Lines 147-168: one iteration of the loop.  written is the number of files
\* the iteration writes before a write fails (3: none fails).
FoldIteration ==
    /\ LoopContinues
    /\ LET all == 1..Len(diagnosis_df.rows)
           test_index == SortedSeq(splits[n_iteration + 1])
           train_index == SortedSeq(all \ splits[n_iteration + 1])
       IN IF Len(train_index) < 2
          THEN pc' = "failed" /\ UNCHANGED <<files, n_iteration>>
          ELSE \E valid \in HoldoutChoices(Len(train_index)), written \in 0..3 :
               LET valid_ind == SortedSeq(valid)
                   train_ind == SortedSeq((1..Len(train_index)) \ valid)
                   df_test == TestTable(df, diagnosis_df, test_index)
                   df_valid == multiple_time_points(df,
                                   HoldoutRows(diagnosis_df.rows, train_index, valid_ind))
                   df_train == multiple_time_points(df,
                                   HoldoutRows(diagnosis_df.rows, train_index, train_ind))
                   out == <<FileEntry(diagnoses_tsv, n_iteration, "train", df_train),
                            FileEntry(diagnoses_tsv, n_iteration, "test", df_test),
                            FileEntry(diagnoses_tsv, n_iteration, "valid", df_valid)>>
               IN IF df_valid.status # "ok" \/ df_train.status # "ok"
                  THEN pc' = "failed" /\ UNCHANGED <<files, n_iteration>>
                  ELSE /\ files' = files \o SubSeq(out, 1, written)
                       /\ IF written < 3
                          THEN pc' = "failed" /\ UNCHANGED n_iteration
                          ELSE /\ n_iteration' = NextIteration(n_iteration)
                               /\ pc' = IF NextIteration(n_iteration) >= n_splits
                                        THEN "split_done" ELSE "folds"
    /\ UNCHANGED <<df, subset_df, result, diagnoses_tsv, n_splits, diagnosis_df, splits,
                   loaded>>

\* A caller locating the files of one fold after the run.
CallLoadSplit ==
    /\ pc = "split_done"
    /\ \E fold \in 0..(n_splits - 1) :
          loaded' = [fold |-> fold, paths |-> load_split(diagnoses_tsv, fold)]
    /\ pc' = "loaded"
    /\ UNCHANGED <<df, subset_df, result, diagnoses_tsv, n_splits, diagnosis_df, splits,
                   n_iteration, files>>

(***************************************************************************)
(* Inputs of split_subjects_to_tsv.                                        *)
(***************************************************************************)
\* n subjects of which the first j have a follow-up session ses-M06 after
\* ses-M00.
RECURSIVE CohortRows(_, _, _)
CohortRows(n, j, i) ==
    IF i > n THEN <<>>
    ELSE (IF i <= j
          THEN <<Record(SubjectIds[i], M00), Record(SubjectIds[i], M06)>>
          ELSE <<Record(SubjectIds[i], M00)>>)
         \o CohortRows(n, j, i + 1)

SplitCohorts == {CohortRows(MaxSubjects, j, 1) : j \in 0..MaxSubjects}

SplitInputs == {[cols |-> c, rows |-> r] : c \in ColumnOrders, r \in SplitCohorts}

\* adni.tsv in the working directory, and /data.v1/adni.v2.tsv.
SourcePaths ==
    { <<"adni", ".", "tsv">>,
      <<"/", "data", ".", "v1", "/", "adni", ".", "v2", ".", "tsv">> }

\* The number of folds asked for.
SplitCounts == {2}

InitSplit ==
    /\ pc = "split"
    /\ df \in SplitInputs
    /\ diagnoses_tsv \in SourcePaths
    /\ n_splits \in SplitCounts
    /\ subset_df = <<>>
    /\ result = NotCalled
    /\ diagnosis_df = NotCalled
    /\ splits = <<>>
    /\ n_iteration = 0
    /\ files = <<>>
    /\ loaded = <<>>

NextSplit == StartSplit \/ FoldIteration \/ CallLoadSplit

SpecSplit == InitSplit /\ [][NextSplit]_vars

(***************************************************************************)
(* Claims on split_subjects_to_tsv and load_split.                         *)
(***************************************************************************)
FileOf(fold, role) ==
    CHOOSE e \in Range(files) : e.fold = fold /\ e.role = role

FileSubjects(e) == {e.rows[i][PID] : i \in 1..Len(e.rows)}

ReducedSubjects == {diagnosis_df.rows[i][PID] : i \in 1..Len(diagnosis_df.rows)}

\* C3: in every fold written, the subject sets of the train, valid and test
\* tables are pairwise disjoint and every subject of the reduced table is in
\* exactly one of them.
C3_FoldPartitionsSubjects ==
    \A k \in 0..(n_iteration - 1) :
        LET tr == FileSubjects(FileOf(k, "train"))
            va == FileSubjects(FileOf(k, "valid"))
            te == FileSubjects(FileOf(k, "test"))
        IN /\ tr \cap va = {}
           /\ tr \cap te = {}
           /\ va \cap te = {}
           /\ tr \cup va \cup te = ReducedSubjects

\* A written fold whose test set holds the first subject of the reduced table,
\* so that the positions of the training pool are not those of the table.
C3_Witness ==
    /\ n_iteration >= 1
    /\ SubjectIds[1] \in FileSubjects(FileOf(0, "test"))
    /\ FileSubjects(FileOf(0, "valid")) # {}
    /\ FileSubjects(FileOf(0, "train")) # {}

\* C4: after a complete run the test subject sets of the n_splits folds are
\* pairwise disjoint and their union is the set of subjects of the reduced
\* table.
C4_TestFoldsPartition ==
    pc \in {"split_done", "loaded"} =>
        /\ \A k, l \in 0..(n_splits - 1) :
              k # l => FileSubjects(FileOf(k, "test")) \cap FileSubjects(FileOf(l, "test")) = {}
        /\ UNION {FileSubjects(FileOf(k, "test")) : k \in 0..(n_splits - 1)} = ReducedSubjects

C4_Witness ==
    /\ pc = "split_done"
    /\ Len(files) = 3 * n_splits
    /\ Cardinality(ReducedSubjects) = MaxSubjects

\* The rows of the original table that belong to the subjects of a file.
SessionRowsOf(e) == {r \in Range(df.rows) : r[PID] \in FileSubjects(e)}

\* C5: in every fold each of the three files holds every session row that the
\* original table has for its subjects (a test file of 2 subjects with 2
\* sessions each has 4 rows).
C5_AllThreeExpanded ==
    \A k \in 0..(n_iteration - 1) : \A role \in {"train", "valid", "test"} :
        /\ Range(FileOf(k, role).rows) = SessionRowsOf(FileOf(k, role))
        /\ Len(FileOf(k, role).rows) = Cardinality(SessionRowsOf(FileOf(k, role)))

\* C5 as amended: the train and valid files hold every session row of their
\* subjects; the test file is cut from the reduced table and holds one row per
\* test subject (2 rows for 2 test subjects with 2 sessions each).
C5_TrainValidExpandedTestReduced ==
    \A k \in 0..(n_iteration - 1) :
        /\ \A role \in {"train", "valid"} :
              /\ Range(FileOf(k, role).rows) = SessionRowsOf(FileOf(k, role))
              /\ Len(FileOf(k, role).rows) = Cardinality(SessionRowsOf(FileOf(k, role)))
        /\ Len(FileOf(k, "test").rows) = Cardinality(FileSubjects(FileOf(k, "test")))
        /\ Range(FileOf(k, "test").rows) \subseteq Range(diagnosis_df.rows)

\* Two test subjects with two sessions each, and a test file of two rows.
C5_Witness ==
    /\ n_iteration >= 1
    /\ Cardinality(FileSubjects(FileOf(0, "test"))) = 2
    /\ Cardinality(SessionRowsOf(FileOf(0, "test"))) = 4
    /\ Len(FileOf(0, "test").rows) = 2
    /\ \E s \in FileSubjects(FileOf(0, "train")) :
          Cardinality({r \in Range(FileOf(0, "train").rows) : r[PID] = s}) = 2

\* C6: load_split returns, in the order training, test, valid, the paths of the
\* train, test and valid files that split_subjects_to_tsv wrote for the fold,
\* three different paths.
C6_LoadSplitFindsEachRole ==
    pc = "loaded" =>
        /\ loaded.paths[1] = FileOf(loaded.fold, "train").path
        /\ loaded.paths[2] = FileOf(loaded.fold, "test").path
        /\ loaded.paths[3] = FileOf(loaded.fold, "valid").path
        /\ Cardinality(Range(loaded.paths)) = 3

\* The source directory and file name as the specification reads them.
DirOfSource == 
    LET slashes == {i \in 1..Len(diagnoses_tsv) : diagnoses_tsv[i] = "/"} IN
    IF slashes = {} THEN <<>>
    ELSE SubSeq(diagnoses_tsv, 1, SetMax(slashes))

NameOfSource ==
    LET slashes == {i \in 1..Len(diagnoses_tsv) : diagnoses_tsv[i] = "/"} IN
    IF slashes = {} THEN diagnoses_tsv
    ELSE SubSeq(diagnoses_tsv, SetMax(slashes) + 1, Len(diagnoses_tsv))

DotsOfName == {i \in 1..Len(NameOfSource) : NameOfSource[i] = "."}

\* <dir>/<base>_iteration-<k>_<role>.tsv
NamedPath(base, k, role) ==
    DirOfSource \o base \o <<"_iteration-">> \o Str(k) \o <<"_" \o role, ".", "tsv">>

Roles == <<"train", "test", "valid">>

\* The files come fold by fold from 0, three per fold, and a complete run
\* leaves 3 * n_splits of them under different paths.
FilesCounted ==
    /\ \A j \in 1..Len(files) :
          files[j].fold = (j - 1) \div 3 /\ files[j].role = Roles[((j - 1) % 3) + 1]
    /\ pc \in {"split_done", "loaded"} =>
          /\ Len(files) = 3 * n_splits
          /\ Cardinality({files[j].path : j \in 1..Len(files)}) = 3 * n_splits

\* C7: every file written is <dir>/<base>_iteration-<k>_<role>.tsv with <base>
\* the source file name without its final extension.
C7_BaseDropsFinalExtension ==
    /\ FilesCounted
    /\ \A j \in 1..Len(files) :
          files[j].path =
              NamedPath(IF DotsOfName = {} THEN NameOfSource
                        ELSE SubSeq(NameOfSource, 1, SetMax(DotsOfName) - 1),
                        files[j].fold, files[j].role)

\* C7 as amended: <base> is the source file name up to its first dot.
C7_BaseStopsAtFirstDot ==
    /\ FilesCounted
    /\ \A j \in 1..Len(files) :
          files[j].path =
              NamedPath(IF DotsOfName = {} THEN NameOfSource
                        ELSE SubSeq(NameOfSource, 1, SetMin(DotsOfName) - 1),
                        files[j].fold, files[j].role)

\* A complete run on a source file whose name has two dots.
C7_Witness ==
    /\ pc = "split_done"
    /\ Cardinality(DotsOfName) = 2
    /\ Len(files) = 3 * n_splits

\* C10: files are written fold after fold, three per fold; once a step of a
\* fold has failed no file is written any more; and a file once written is
\* neither rewritten nor changed.
C10_FoldsInOrderNoRetry ==
    [][ /\ Len(files') >= Len(files)
        /\ SubSeq(files', 1, Len(files)) = files
        /\ \A j \in 1..Len(files') :
              /\ files'[j].fold = (j - 1) \div 3
              /\ files'[j].role = Roles[((j - 1) % 3) + 1]
              /\ \A i \in 1..(j - 1) : files'[i].path # files'[j].path
        /\ (pc = "failed" => files' = files /\ pc' = "failed")
      ]_vars

\* A write of the second fold failed after the first fold was written.
C10_Witness ==
    /\ pc = "failed"
    /\ Len(files) = 4

====
